---- MODULE Spec2Model ----
(***************************************************************************)
(* Skill lifecycle manager of skills_ref (management.py): create_skill,    *)
(* edit_skill, delete_skill and list_skills acting on the per-agent skill  *)
(* directories  <root>/.<agent>/skills/<name>/SKILL.md.                    *)
(*                                                                         *)
(* Strings are the program's own strings; what the program computes from   *)
(* a string (validation, the directory a name denotes, the lines of a     *)
(* file) is given by the operators below.  A file's content is the        *)
(* sequence of its lines (content.split("\n")), so a content ending in a   *)
(* newline has a last, empty line.  A line is [key, text]: key # "" is the *)
(* line "<key>: <text>", key = "" is the line "<text>".                    *)
(***************************************************************************)
EXTENDS Integers, Sequences, FiniteSets, TLC

VARIABLES
    fs,      \* the filesystem: [Locs -> skills directory]
    before,  \* the filesystem as it was when the last operation was called
    op,      \* the last operation called, with its arguments
    ret,     \* what the last operation returned or raised
    fault,   \* the filesystem call that failed during the last operation
    procs    \* the calls in progress when two processes run at once

vars == <<fs, before, op, ret, fault, procs>>

----------------------------------------------------------------------------
(* Bounds and input sets *)

\* Number of agents the registry supplies.
NumAgents == 2

AgentPool == <<"claude", "codex", "gemini">>

AgentSet == {AgentPool[i] : i \in 1..NumAgents}

\* Scope roots: Path.cwd(), Path.home(), and a configuration root that is
\* not the home directory.
Roots == {"cwd", "home", "xdg"}

\* Directory names that occur under a skills directory.
DirNames == {"deploy-helper", "lint"}

\* Skill names the operations are called with.
Names == {"deploy-helper", "deploy-helper/", ""}

\* Descriptions the operations are called with.
Descs == {"Automates deployments", "Updated deploy logic", ""}

\* The description argument recorded for an operation that takes none.
NoDesc == "-"

----------------------------------------------------------------------------
(* Strings *)

\* Strings that are empty or hold only whitespace.
Blank == {""}

\* Strings made of lowercase letters, digits and single inner hyphens.
KebabCase == {"deploy-helper", "lint"}

\* The directory a name denotes under a skills directory once the path
\* <skills>/<name>/SKILL.md is resolved: a trailing separator is dropped,
\* the empty name denotes the skills directory itself (".").
DirOf(name) ==
    CASE name = "deploy-helper/" -> "deploy-helper"
      [] name = ""               -> "."
      [] OTHER                   -> name

Line(key, text) == [key |-> key, text |-> text]

\* A line that holds only whitespace.
IsBlankLine(l) == l.key = "" /\ l.text \in Blank

----------------------------------------------------------------------------
(* Collaborators of management.py: registry, validators, renderer, resolver *)

\* utils.load_supporting_agents(): the supported agents in registry order.
\* skills_dir is the agent's ".<agent>/skills", named here by the agent.
load_supporting_agents ==
    [i \in 1..NumAgents |-> [name |-> AgentPool[i], skills_dir |-> AgentPool[i]]]

\* parser.get_local_supporting_agents(): agent -> its configuration, in the
\* same order.  One agent is configured at the home directory, the others at
\* a configuration root of their own.
get_local_supporting_agents ==
    [a \in AgentSet |-> [config_dir |-> IF a = "claude" THEN "home" ELSE "xdg"]]

\* validator._validate_name: the list of violations, empty when valid.
_validate_name(name) ==
    IF name \in Blank THEN <<"name must be a non-empty string">>
    ELSE IF name \notin KebabCase THEN <<"name contains invalid characters">>
    ELSE <<>>

\* validator._validate_description: the list of violations, empty when valid.
_validate_description(description) ==
    IF description \in Blank THEN <<"description must be a non-empty string">>
    ELSE <<>>

\* utils.build_skill_instructions_template: the rendered SKILL.md.
build_skill_instructions_template(name, description) ==
    << Line("", "---"),
       Line("name", name),
       Line("description", description),
       Line("", "---"),
       Line("", "# Instructions"),
       Line("", "") >>

----------------------------------------------------------------------------
(* Filesystem *)

NoContent == <<>>

\* A directory <skills>/<dir> that does not exist.
NoEntry == [exists |-> FALSE, has_file |-> FALSE, file |-> NoContent, extra |-> FALSE]

\* An existing directory <skills>/<dir> without SKILL.md.
EmptyEntry == [exists |-> TRUE, has_file |-> FALSE, file |-> NoContent, extra |-> FALSE]

FileEntry(content, extra) ==
    [exists |-> TRUE, has_file |-> TRUE, file |-> content, extra |-> extra]

\* A skills directory <root>/.<agent>/skills that does not exist.
NoSkillsDir == [exists |-> FALSE, dirs |-> [d \in DirNames |-> NoEntry]]

EmptySkillsDir == [exists |-> TRUE, dirs |-> [d \in DirNames |-> NoEntry]]

\* The scope root of create, edit and delete for an agent.
BasePath(agent, project_level) ==
    IF project_level THEN "cwd" ELSE get_local_supporting_agents[agent].config_dir

\* The skills directories the operations look at: <root>/.<agent>/skills under
\* the working directory, the home directory and the agent's config_dir.
Locs == {l \in Roots \X AgentSet : l[1] \in {"cwd", "home", BasePath(l[2], FALSE)}}

EmptyFs == [l \in Locs |-> NoSkillsDir]

\* The path <root>/.<agent>/skills/<dir>/SKILL.md.
SkillFile(root, agent, dir) == [root |-> root, agent |-> agent, dir |-> dir]

\* Path.exists() of a SKILL.md path.
FileExists(f, p) ==
    /\ p.dir \in DirNames
    /\ f[<<p.root, p.agent>>].exists
    /\ f[<<p.root, p.agent>>].dirs[p.dir].has_file

ReadText(f, p) == f[<<p.root, p.agent>>].dirs[p.dir].file

\* Path.mkdir(parents=True, exist_ok=True) of the directory of p, then
\* write_text(content) on p. With the empty name the directory of p is the
\* skills directory itself: it is made, and its SKILL.md is no skill
\* directory's file.
MkdirAndWrite(f, p, content) ==
    LET sd == f[<<p.root, p.agent>>]
    IN  IF p.dir \in DirNames
        THEN [f EXCEPT ![<<p.root, p.agent>>] =
                 [exists |-> TRUE,
                  dirs |-> [sd.dirs EXCEPT ![p.dir] =
                               FileEntry(content, @.exists /\ @.extra)]]]
        ELSE [f EXCEPT ![<<p.root, p.agent>>].exists = TRUE]

\* write_text(content) on an existing p.
WriteText(f, p, content) ==
    IF p.dir \in DirNames
    THEN [f EXCEPT ![<<p.root, p.agent>>].dirs[p.dir].has_file = TRUE,
                   ![<<p.root, p.agent>>].dirs[p.dir].file = content]
    ELSE f

\* A removal that unlinks p and leaves the directory that holds it.
UnlinkOnly(f, p) ==
    [f EXCEPT ![<<p.root, p.agent>>].dirs[p.dir].has_file = FALSE,
              ![<<p.root, p.agent>>].dirs[p.dir].file = NoContent]

\* shutil.rmtree of the directory that holds p.
RmTree(f, p) == [f EXCEPT ![<<p.root, p.agent>>].dirs[p.dir] = NoEntry]

\* validator.check_if_skill_exist: agent -> SKILL.md path, for the agents
\* whose SKILL.md exists in the scope; the empty mapping when none does.
check_if_skill_exist(f, skill_name, project_level) ==
    LET path(a) == SkillFile(BasePath(a, project_level), a, DirOf(skill_name))
        found == {a \in AgentSet : FileExists(f, path(a))}
    IN  [a \in found |-> path(a)]

\* The agents of a mapping in its iteration order (registry order).
Keys(mapping) ==
    SelectSeq([i \in 1..NumAgents |-> AgentPool[i]], LAMBDA a : a \in DOMAIN mapping)

----------------------------------------------------------------------------
(* Results *)

Return(value) == [kind |-> "return", value |-> value]

Raise(exc, errors) == [kind |-> "raise", exc |-> exc, errors |-> errors]

----------------------------------------------------------------------------
(* create_skill *)

\* A turn of create_skill's loop that writes for the first agent only.
create_for_first_agent_only(f, agent, skill_name, skill_description, project_level) ==
    LET skill_file == SkillFile(BasePath(agent, project_level), agent, DirOf(skill_name))
        content == build_skill_instructions_template(skill_name, skill_description)
    IN  IF agent = AgentPool[1]
        THEN MkdirAndWrite(f, skill_file, content)
        ELSE f

\* One turn of create_skill's loop: the agent's skill directory is made and
\* the rendered template written to its SKILL.md.
create_for_agent(f, agent, skill_name, skill_description, project_level) ==
    LET skill_file == SkillFile(BasePath(agent, project_level), agent, DirOf(skill_name))
        content == build_skill_instructions_template(skill_name, skill_description)
    IN  MkdirAndWrite(f, skill_file, content)

\* The first k turns of create_skill's loop over the registry.
RECURSIVE create_loop(_, _, _, _, _)
create_loop(f, k, skill_name, skill_description, project_level) ==
    IF k = 0 THEN f
    ELSE create_for_agent(
             create_loop(f, k - 1, skill_name, skill_description, project_level),
             AgentPool[k], skill_name, skill_description, project_level)

\* The mapping create_skill builds while it creates: agent -> {agent, file}.
created_files(skill_name, project_level) ==
    [a \in AgentSet |->
        [agent |-> a,
         file |-> SkillFile(BasePath(a, project_level), a, DirOf(skill_name))]]

\* create_skill without its name validation.
create_skill_unvalidated(f, skill_name, skill_description, project_level) ==
    LET skill_info == check_if_skill_exist(f, skill_name, project_level)
    IN  IF DOMAIN skill_info # {}
        THEN [fs |-> f, ret |-> Return(skill_info)]
        ELSE [fs |-> create_loop(f, NumAgents, skill_name, skill_description,
                                 project_level),
              ret |-> Return(created_files(skill_name, project_level))]

\* create_skill without its existence check: an existing skill is rendered
\* again.
create_skill_overwriting(f, skill_name, skill_description, project_level) ==
    IF _validate_name(skill_name) # <<>>
    THEN [fs |-> f, ret |-> Raise("ValidationError", _validate_name(skill_name))]
    ELSE IF _validate_description(skill_name) # <<>>
    THEN [fs |-> f, ret |-> Raise("ValidationError", _validate_description(skill_name))]
    ELSE LET skill_info == check_if_skill_exist(f, skill_name, project_level)
         IN  [fs |-> create_loop(f, NumAgents, skill_name, skill_description,
                                 project_level),
              ret |-> Return(IF DOMAIN skill_info # {} THEN skill_info
                             ELSE created_files(skill_name, project_level))]

create_skill(f, skill_name, skill_description, project_level) ==
    IF _validate_name(skill_name) # <<>>
    THEN [fs |-> f, ret |-> Raise("ValidationError", _validate_name(skill_name))]
    ELSE IF _validate_description(skill_name) # <<>>
    THEN [fs |-> f, ret |-> Raise("ValidationError", _validate_description(skill_name))]
    ELSE LET skill_info == check_if_skill_exist(f, skill_name, project_level)
         IN  IF DOMAIN skill_info # {}
             THEN [fs |-> f, ret |-> Return(skill_info)]
             ELSE [fs |-> create_loop(f, NumAgents, skill_name, skill_description,
                                      project_level),
                   ret |-> Return(created_files(skill_name, project_level))]

----------------------------------------------------------------------------
(* edit_skill *)

\* The least member of a set of indexes, or 0 when it is empty.
FirstOf(hits) ==
    IF hits = {} THEN 0 ELSE CHOOSE i \in hits : \A j \in hits : i <= j

\* The first line that begins with "description:", or 0.
FirstDescriptionLine(content) ==
    FirstOf({i \in 1..Len(content) : content[i].key = "description"})

\* The first line after line i that does not hold only whitespace, or 0.
NextNonBlankLine(content, i) ==
    FirstOf({k \in (i + 1)..Len(content) : ~IsBlankLine(content[k])})

\* re.sub(r'^description:\s*.*$', f'description: {description}', content,
\*        count=1, flags=re.MULTILINE).
\* The match starts at the first line that begins with "description:"; \s*
\* runs over whitespace, line breaks included, and .* to the end of the line
\* it stops in: when only whitespace follows the colon, the match runs on
\* through the blank lines and the next line that is not blank.
re_sub_description(content, description) ==
    LET i == FirstDescriptionLine(content)
    IN  IF i = 0 THEN content
        ELSE LET n == NextNonBlankLine(content, i)
                 j == IF content[i].text \notin Blank THEN i
                      ELSE IF n = 0 THEN Len(content) ELSE n
             IN  SubSeq(content, 1, i - 1)
                   \o <<Line("description", description)>>
                   \o SubSeq(content, j + 1, Len(content))

\* The first k turns of edit_skill's writing loop over the resolved mapping.
RECURSIVE edit_loop(_, _, _, _)
edit_loop(f, k, skill_files, edited_content) ==
    IF k = 0 THEN f
    ELSE WriteText(edit_loop(f, k - 1, skill_files, edited_content),
                   skill_files[Keys(skill_files)[k]], edited_content)

\* edit_skill that substitutes in each agent's own content.
edit_skill_per_agent(f, skill_name, description, project_level) ==
    IF _validate_description(skill_name) # <<>>
    THEN [fs |-> f, ret |-> Raise("ValidationError", _validate_description(skill_name))]
    ELSE LET skill_files == check_if_skill_exist(f, skill_name, project_level)
         IN  IF DOMAIN skill_files = {}
             THEN [fs |-> f, ret |-> Raise("SkillError", <<>>)]
             ELSE [fs |-> [l \in Locs |->
                              IF \E a \in DOMAIN skill_files :
                                    l = <<skill_files[a].root, a>>
                              THEN [f[l] EXCEPT !.dirs[DirOf(skill_name)].file =
                                       re_sub_description(@, description)]
                              ELSE f[l]],
                   ret |-> Return(TRUE)]

edit_skill(f, skill_name, description, project_level) ==
    IF _validate_description(skill_name) # <<>>
    THEN [fs |-> f, ret |-> Raise("ValidationError", _validate_description(skill_name))]
    ELSE LET skill_files == check_if_skill_exist(f, skill_name, project_level)
         IN  IF DOMAIN skill_files = {}
             THEN [fs |-> f, ret |-> Raise("SkillError", <<>>)]
             ELSE LET skill_file == skill_files[Head(Keys(skill_files))]
                      initial_content == ReadText(f, skill_file)
                      edited_content == re_sub_description(initial_content, description)
                  IN  [fs |-> edit_loop(f, Len(Keys(skill_files)), skill_files,
                                        edited_content),
                       ret |-> Return(TRUE)]

----------------------------------------------------------------------------
(* delete_skill *)

\* The first k turns of delete_skill's loop over the resolved mapping.
RECURSIVE delete_loop(_, _, _)
delete_loop(f, k, skill_files) ==
    IF k = 0 THEN f
    ELSE RmTree(delete_loop(f, k - 1, skill_files), skill_files[Keys(skill_files)[k]])

\* delete_skill that removes the skill of the mapping's first agent only.
delete_skill_first_only(f, skill_name, project_level) ==
    LET skill_files == check_if_skill_exist(f, skill_name, project_level)
    IN  IF DOMAIN skill_files = {}
        THEN [fs |-> f, ret |-> Raise("SkillError", <<>>)]
        ELSE [fs |-> delete_loop(f, 1, skill_files), ret |-> Return(TRUE)]

delete_skill(f, skill_name, project_level) ==
    LET skill_files == check_if_skill_exist(f, skill_name, project_level)
    IN  IF DOMAIN skill_files = {}
        THEN [fs |-> f, ret |-> Raise("SkillError", <<>>)]
        ELSE [fs |-> delete_loop(f, Len(Keys(skill_files)), skill_files),
              ret |-> Return(TRUE)]

----------------------------------------------------------------------------
(* list_skills *)

\* The directories iterdir() yields under a skills directory that exists.
available_skills(f, base_path, skills_dir) ==
    {d \in DirNames : f[<<base_path, skills_dir>>].dirs[d].exists}

\* A resolved Path is always true, so every agent's directory is iterated;
\* iterdir() on a directory that does not exist raises FileNotFoundError.
list_skills(f, project_level) ==
    LET base_path == IF project_level THEN "cwd" ELSE "home"
        agents == load_supporting_agents
    IN  IF \E i \in 1..NumAgents : ~f[<<base_path, agents[i].skills_dir>>].exists
        THEN [fs |-> f, ret |-> Raise("FileNotFoundError", <<>>)]
        ELSE [fs |-> f,
              ret |-> Return([i \in 1..NumAgents |->
                         agents[i].name :>
                            available_skills(f, base_path, agents[i].skills_dir)])]

----------------------------------------------------------------------------
(* The filesystem the operations start from *)

\* A SKILL.md edited by hand: no description line.
CustomNoDescription ==
    << Line("", "---"), Line("name", "deploy-helper"), Line("", "---"),
       Line("", "custom notes"), Line("", "") >>

\* A SKILL.md edited by hand: a second description line in the body.
CustomTwoDescriptions ==
    << Line("", "---"), Line("name", "deploy-helper"),
       Line("description", "Automates deployments"), Line("", "---"),
       Line("description", "legacy"), Line("", "") >>

\* A skills directory that holds the given entry for deploy-helper and the
\* given entry for lint.
SkillsDirWith(deploy, lint) ==
    [exists |-> TRUE,
     dirs |-> [d \in DirNames |-> IF d = "deploy-helper" THEN deploy ELSE lint]]

Rendered == build_skill_instructions_template("deploy-helper", "Automates deployments")

\* A filesystem in which the skills directories under root hold: first for
\* the first agent of the registry, rest for every other agent.
FsWith(root, first, rest) ==
    [l \in Locs |->
        IF l[1] # root THEN NoSkillsDir
        ELSE IF l[2] = AgentPool[1] THEN first ELSE rest]

\* The filesystems the operations may find when first called:
\*   no skills directory anywhere;
\*   the project's skills directory of the first agent only, empty;
\*   the skill rendered for the first agent, its directory without SKILL.md
\*   for the others;
\*   SKILL.md files changed by hand, differing between agents, with other
\*   files beside one of them and another skill next to it;
\*   the skill rendered under the home directory for the first agent, the
\*   others' skills directories there empty.
PriorFs ==
    { EmptyFs,
      FsWith("cwd", EmptySkillsDir, NoSkillsDir),
      FsWith("cwd", SkillsDirWith(FileEntry(Rendered, FALSE), NoEntry),
                    SkillsDirWith(EmptyEntry, NoEntry)),
      FsWith("cwd", SkillsDirWith(FileEntry(CustomTwoDescriptions, TRUE),
                                  FileEntry(Rendered, FALSE)),
                    SkillsDirWith(FileEntry(CustomNoDescription, FALSE), NoEntry)),
      FsWith("home", SkillsDirWith(FileEntry(Rendered, FALSE), NoEntry),
                     EmptySkillsDir) }

NoOp == [kind |-> "none", name |-> "", desc |-> NoDesc, project_level |-> TRUE]

\* No filesystem call failed.
NoFault == [agent |-> "", step |-> ""]

\* Neither of two concurrent processes, one to call create_skill and one to
\* call delete_skill, has started its call. pc is the call's position, k the
\* agent it is at, files the mapping the resolver has built so far, seen what
\* rmtree found in the directory it is removing.
Idle ==
    [create |-> [pc |-> "idle", name |-> "", desc |-> NoDesc, project_level |-> TRUE,
                 files |-> <<>>, k |-> 0, ret |-> Return(TRUE)],
     delete |-> [pc |-> "idle", name |-> "", project_level |-> TRUE,
                 files |-> <<>>, seen |-> [has_file |-> FALSE, extra |-> FALSE],
                 k |-> 0, ret |-> Return(TRUE)]]

Init ==
    /\ fs \in PriorFs
    /\ before = fs
    /\ op = NoOp
    /\ ret = Return(TRUE)
    /\ fault = NoFault
    /\ procs = Idle

\* A run that starts with no skill directories at all.
InitFresh ==
    /\ fs = EmptyFs
    /\ before = fs
    /\ op = NoOp
    /\ ret = Return(TRUE)
    /\ fault = NoFault
    /\ procs = Idle

----------------------------------------------------------------------------
(* Operations *)

CreateSkill ==
    \E n \in Names, d \in Descs, pl \in BOOLEAN :
        LET r == create_skill(fs, n, d, pl)
        IN  /\ fs' = r.fs
            /\ before' = fs
            /\ op' = [kind |-> "create", name |-> n, desc |-> d, project_level |-> pl]
            /\ ret' = r.ret
            /\ fault' = NoFault
            /\ UNCHANGED procs

EditSkill ==
    \E n \in Names, d \in Descs, pl \in BOOLEAN :
        LET r == edit_skill(fs, n, d, pl)
        IN  /\ fs' = r.fs
            /\ before' = fs
            /\ op' = [kind |-> "edit", name |-> n, desc |-> d, project_level |-> pl]
            /\ ret' = r.ret
            /\ fault' = NoFault
            /\ UNCHANGED procs

DeleteSkill ==
    \E n \in Names, pl \in BOOLEAN :
        LET r == delete_skill(fs, n, pl)
        IN  /\ fs' = r.fs
            /\ before' = fs
            /\ op' = [kind |-> "delete", name |-> n, desc |-> NoDesc, project_level |-> pl]
            /\ ret' = r.ret
            /\ fault' = NoFault
            /\ UNCHANGED procs

ListSkills ==
    \E pl \in BOOLEAN :
        LET r == list_skills(fs, pl)
        IN  /\ fs' = r.fs
            /\ before' = fs
            /\ op' = [kind |-> "list", name |-> "", desc |-> NoDesc, project_level |-> pl]
            /\ ret' = r.ret
            /\ fault' = NoFault
            /\ UNCHANGED procs

Next == CreateSkill \/ EditSkill \/ DeleteSkill \/ ListSkills

Spec == Init /\ [][Next]_vars

SpecFresh == InitFresh /\ [][Next]_vars

----------------------------------------------------------------------------
(* A filesystem call raises in the middle of a loop over the agents *)

\* What a write_text that raised after opening its file, before it stored
\* anything, leaves in it: the empty file.
Truncated == <<Line("", "")>>

\* The beginnings of a word a write can stop after: each one shorter than the
\* word and not empty.
ProperPrefixes(w) ==
    CASE w = "---" ->
          {"-", "--"}
      [] w = "name" ->
          {"n", "na", "nam"}
      [] w = "description" ->
          {"d", "de", "des", "desc", "descr", "descri", "descrip",
           "descript", "descripti", "descriptio"}
      [] w = "# Instructions" ->
          {"#", "# ", "# I", "# In", "# Ins", "# Inst", "# Instr",
           "# Instru", "# Instruc", "# Instruct", "# Instructi",
           "# Instructio", "# Instruction"}
      [] w = "deploy-helper" ->
          {"d", "de", "dep", "depl", "deplo", "deploy", "deploy-",
           "deploy-h", "deploy-he", "deploy-hel", "deploy-help",
           "deploy-helpe"}
      [] w = "deploy-helper/" ->
          {"d", "de", "dep", "depl", "deplo", "deploy", "deploy-",
           "deploy-h", "deploy-he", "deploy-hel", "deploy-help",
           "deploy-helpe", "deploy-helper"}
      [] w = "lint" ->
          {"l", "li", "lin"}
      [] w = "Automates deployments" ->
          {"A", "Au", "Aut", "Auto", "Autom", "Automa", "Automat",
           "Automate", "Automates", "Automates ", "Automates d",
           "Automates de", "Automates dep", "Automates depl",
           "Automates deplo", "Automates deploy", "Automates deploym",
           "Automates deployme", "Automates deploymen",
           "Automates deployment"}
      [] w = "Updated deploy logic" ->
          {"U", "Up", "Upd", "Upda", "Updat", "Update", "Updated",
           "Updated ", "Updated d", "Updated de", "Updated dep",
           "Updated depl", "Updated deplo", "Updated deploy",
           "Updated deploy ", "Updated deploy l", "Updated deploy lo",
           "Updated deploy log", "Updated deploy logi"}
      [] w = "custom notes" ->
          {"c", "cu", "cus", "cust", "custo", "custom", "custom ",
           "custom n", "custom no", "custom not", "custom note"}
      [] w = "legacy" ->
          {"l", "le", "leg", "lega", "legac"}
      [] OTHER -> {}

\* The line "key:", which a write left before the space after the colon.
KeyOnly(key) == [key |-> key, text |-> "", space |-> FALSE]

\* What is left of a line the write stopped in, byte by byte: nothing, a
\* beginning of its text when it has no key, else a beginning of its key, the
\* key, the key with the colon, with the space too, or with a beginning of
\* the text.
CutsOf(l) ==
    IF l.key = ""
    THEN {Line("", "")} \cup {Line("", t) : t \in ProperPrefixes(l.text)}
    ELSE {Line("", ""), KeyOnly(l.key), Line(l.key, "")}
            \cup {Line("", t) : t \in ProperPrefixes(l.key) \cup {l.key}}
            \cup {Line(l.key, t) : t \in ProperPrefixes(l.text)}

\* What a write_text that raised after opening its file can leave in it: the
\* file is truncated when opened, and the write may have stored any part of
\* the content before it failed: the lines before the one it stopped in,
\* then what is left of that line, or the line without its line break.
PartialWrites(content) ==
    (UNION {{SubSeq(content, 1, i - 1) \o <<t>> : t \in CutsOf(content[i])} :
               i \in 1..Len(content)}
        \cup {SubSeq(content, 1, i) : i \in 1..Len(content)})
    \ {content}

\* What the failing call of a loop turn has stored in the file it was writing.
StoredBy(step, content) ==
    IF step = "write" THEN PartialWrites(content) ELSE {Truncated}

\* Path.mkdir(parents=True, exist_ok=True) of the directory of p.
Mkdir(f, p) ==
    LET sd == f[<<p.root, p.agent>>]
    IN  IF p.dir \in DirNames
        THEN [f EXCEPT ![<<p.root, p.agent>>] =
                 [exists |-> TRUE,
                  dirs |-> [sd.dirs EXCEPT ![p.dir] =
                               IF @.exists THEN @ ELSE EmptyEntry]]]
        ELSE [f EXCEPT ![<<p.root, p.agent>>].exists = TRUE]

\* Path.is_dir() of the directory of p.
DirExists(f, p) ==
    /\ f[<<p.root, p.agent>>].exists
    /\ p.dir \in DirNames => f[<<p.root, p.agent>>].dirs[p.dir].exists

\* Where a turn of create_skill's loop can raise, by what it has done then:
\* mkdir made nothing, mkdir made the parents only, write_text could not
\* open the file, write_text opened the file and stored part of the content.
CreateFaults == {"mkdir", "mkdir_parents", "open", "write"}

\* Where a turn of edit_skill's writing loop can raise: write_text could not
\* open the file, or opened it and stored part of the content.
EditFaults == {"open", "write"}

\* Where a turn of delete_skill's loop can raise, by what rmtree had removed:
\* nothing, SKILL.md, the other files, or everything but the directory.
DeleteFaults == {"rmtree", "rmtree_file", "rmtree_others", "rmtree_rmdir"}

\* The turn of create_skill's loop that raises at step.
create_for_agent_failing(f, agent, skill_name, project_level, step, stored) ==
    LET skill_file == SkillFile(BasePath(agent, project_level), agent, DirOf(skill_name))
        l == <<skill_file.root, agent>>
    IN  CASE step = "mkdir" -> f
          [] step = "mkdir_parents" -> [f EXCEPT ![l].exists = TRUE]
          [] step = "open" -> Mkdir(f, skill_file)
          [] step = "write" -> WriteText(Mkdir(f, skill_file), skill_file, stored)

\* create_skill whose loop raises in turn k and undoes what it did before.
create_skill_failing_undone(f, skill_name, skill_description, project_level, k, step, stored) ==
    [fs |-> f, ret |-> Raise("OSError", <<>>)]

\* create_skill whose loop raises in turn k at step, a failing write having
\* stored `stored`: nothing catches the exception, so the turns before k are
\* done and no later turn is.
create_skill_failing(f, skill_name, skill_description, project_level, k, step, stored) ==
    [fs |-> create_for_agent_failing(
                create_loop(f, k - 1, skill_name, skill_description, project_level),
                AgentPool[k], skill_name, project_level, step, stored),
     ret |-> Raise("OSError", <<>>)]

\* The content edit_skill writes for a skill that resolves.
edited_content_of(f, skill_name, description, project_level) ==
    LET skill_files == check_if_skill_exist(f, skill_name, project_level)
    IN  re_sub_description(ReadText(f, skill_files[Head(Keys(skill_files))]), description)

\* edit_skill whose writing loop raises in turn k at step, a failing write
\* having stored `stored`.
edit_skill_failing(f, skill_name, description, project_level, k, step, stored) ==
    LET skill_files == check_if_skill_exist(f, skill_name, project_level)
        skill_file == skill_files[Head(Keys(skill_files))]
        initial_content == ReadText(f, skill_file)
        edited_content == re_sub_description(initial_content, description)
        done == edit_loop(f, k - 1, skill_files, edited_content)
        failing == skill_files[Keys(skill_files)[k]]
    IN  [fs |-> IF step = "write" THEN WriteText(done, failing, stored) ELSE done,
         ret |-> Raise("OSError", <<>>)]

\* delete_skill whose loop raises in turn k at step.
delete_skill_failing(f, skill_name, project_level, k, step) ==
    LET skill_files == check_if_skill_exist(f, skill_name, project_level)
        done == delete_loop(f, k - 1, skill_files)
        failing == skill_files[Keys(skill_files)[k]]
        l == <<failing.root, failing.agent>>
    IN  [fs |-> CASE step = "rmtree" -> done
                  [] step = "rmtree_file" -> UnlinkOnly(done, failing)
                  [] step = "rmtree_others" ->
                        [done EXCEPT ![l].dirs[failing.dir].extra = FALSE]
                  [] step = "rmtree_rmdir" ->
                        [done EXCEPT ![l].dirs[failing.dir] = EmptyEntry],
         ret |-> Raise("OSError", <<>>)]

\* Nothing in the module catches the exception: the call that raises is the
\* last one of the run (fault = NoFault before it).
CreateSkillFails ==
    \E n \in Names, d \in Descs, pl \in BOOLEAN, k \in 1..NumAgents, step \in CreateFaults :
      \E stored \in StoredBy(step, build_skill_instructions_template(n, d)) :
        /\ fault = NoFault
        /\ _validate_name(n) = <<>>
        /\ _validate_description(n) = <<>>
        /\ DOMAIN check_if_skill_exist(fs, n, pl) = {}
        /\ LET r == create_skill_failing(fs, n, d, pl, k, step, stored)
           IN  /\ fs' = r.fs
               /\ before' = fs
               /\ op' = [kind |-> "create", name |-> n, desc |-> d, project_level |-> pl]
               /\ ret' = r.ret
               /\ fault' = [agent |-> AgentPool[k], step |-> step]
               /\ UNCHANGED procs

EditSkillFails ==
    \E n \in Names, d \in Descs, pl \in BOOLEAN, k \in 1..NumAgents, step \in EditFaults :
        /\ fault = NoFault
        /\ _validate_description(n) = <<>>
        /\ k <= Len(Keys(check_if_skill_exist(fs, n, pl)))
        /\ \E stored \in StoredBy(step, edited_content_of(fs, n, d, pl)) :
           LET r == edit_skill_failing(fs, n, d, pl, k, step, stored)
           IN  /\ fs' = r.fs
               /\ before' = fs
               /\ op' = [kind |-> "edit", name |-> n, desc |-> d, project_level |-> pl]
               /\ ret' = r.ret
               /\ fault' = [agent |-> Keys(check_if_skill_exist(fs, n, pl))[k],
                            step |-> step]
               /\ UNCHANGED procs

DeleteSkillFails ==
    \E n \in Names, pl \in BOOLEAN, k \in 1..NumAgents, step \in DeleteFaults :
        /\ fault = NoFault
        /\ k <= Len(Keys(check_if_skill_exist(fs, n, pl)))
        /\ LET r == delete_skill_failing(fs, n, pl, k, step)
           IN  /\ fs' = r.fs
               /\ before' = fs
               /\ op' = [kind |-> "delete", name |-> n, desc |-> NoDesc,
                         project_level |-> pl]
               /\ ret' = r.ret
               /\ fault' = [agent |-> Keys(check_if_skill_exist(fs, n, pl))[k],
                            step |-> step]
               /\ UNCHANGED procs

NextFail == CreateSkillFails \/ EditSkillFails \/ DeleteSkillFails

SpecFail == Init /\ [][NextFail]_vars

----------------------------------------------------------------------------
(* create_skill and delete_skill in two processes, one filesystem call at
   a time *)

\* The SKILL.md path of the agent a call c is at.
proc_file(c) ==
    SkillFile(BasePath(AgentPool[c.k], c.project_level), AgentPool[c.k], DirOf(c.name))

\* One test of the resolver: Path.exists() of the SKILL.md of agent c.k,
\* which enters the mapping when it is there.
resolve_step(f, c) ==
    IF FileExists(f, proc_file(c))
    THEN [a \in DOMAIN c.files \cup {AgentPool[c.k]} |->
             SkillFile(BasePath(a, c.project_level), a, DirOf(c.name))]
    ELSE c.files

\* create_skill up to the resolver: the validation of the name.
create_start(skill_name, skill_description, project_level) ==
    LET c == [pc |-> "done", name |-> skill_name, desc |-> skill_description,
              project_level |-> project_level, files |-> <<>>, k |-> 0,
              ret |-> Return(TRUE)]
    IN  IF _validate_name(skill_name) # <<>>
        THEN [c EXCEPT !.ret = Raise("ValidationError", _validate_name(skill_name))]
        ELSE IF _validate_description(skill_name) # <<>>
        THEN [c EXCEPT !.ret = Raise("ValidationError", _validate_description(skill_name))]
        ELSE [c EXCEPT !.pc = "exists", !.k = 1]

\* A test of the resolver in create_skill; after the last one the mapping is
\* returned when it is not empty, else the loop begins.
create_exists(f, c) ==
    LET skill_info == resolve_step(f, c)
    IN  IF c.k < NumAgents
        THEN [c EXCEPT !.files = skill_info, !.k = c.k + 1]
        ELSE IF DOMAIN skill_info # {}
        THEN [c EXCEPT !.files = skill_info, !.pc = "done", !.k = 0,
                       !.ret = Return(skill_info)]
        ELSE [c EXCEPT !.files = skill_info, !.pc = "mkdir", !.k = 1]

\* os.mkdir of a directory whose parent is there.
OsMkdir(f, p) ==
    IF p.dir \in DirNames
    THEN [f EXCEPT ![<<p.root, p.agent>>].dirs[p.dir] = EmptyEntry]
    ELSE [f EXCEPT ![<<p.root, p.agent>>].exists = TRUE]

\* The first os.mkdir of Path.mkdir(skill_dir, parents=True, exist_ok=True)
\* in turn c.k: the directory is made; when it is there already the call
\* goes on to test it, and when its parent is missing, to make the parent.
create_mkdir(f, c) ==
    LET p == proc_file(c)
    IN  IF DirExists(f, p)
        THEN [fs |-> f, proc |-> [c EXCEPT !.pc = "is_dir"]]
        ELSE IF f[<<p.root, p.agent>>].exists
        THEN [fs |-> OsMkdir(f, p), proc |-> [c EXCEPT !.pc = "open"]]
        ELSE [fs |-> f, proc |-> [c EXCEPT !.pc = "mkdir_skills"]]

\* os.mkdir of the skills directory, by Path.mkdir of the parent: the
\* directory is made when the agent's directory above it is there
\* (agent_dir), else the call goes on to make that one first.
create_mkdir_skills(f, c, agent_dir) ==
    LET p == proc_file(c)
    IN  IF f[<<p.root, p.agent>>].exists
        THEN [fs |-> f, proc |-> [c EXCEPT !.pc = "mkdir_again"]]
        ELSE IF agent_dir
        THEN [fs |-> [f EXCEPT ![<<p.root, p.agent>>].exists = TRUE],
              proc |-> [c EXCEPT !.pc = "mkdir_again"]]
        ELSE [fs |-> f, proc |-> [c EXCEPT !.pc = "mkdir_agent"]]

\* os.mkdir of the agent's directory, <base>/.<agent>, which holds no skill.
create_mkdir_agent(c) == [c EXCEPT !.pc = "mkdir_skills_again"]

\* The second os.mkdir of the skill's directory, its parents made:
\* FileNotFoundError is raised when the skills directory is not there.
create_mkdir_again(f, c) ==
    LET p == proc_file(c)
    IN  IF DirExists(f, p)
        THEN [fs |-> f, proc |-> [c EXCEPT !.pc = "is_dir"]]
        ELSE IF f[<<p.root, p.agent>>].exists
        THEN [fs |-> OsMkdir(f, p), proc |-> [c EXCEPT !.pc = "open"]]
        ELSE [fs |-> f,
              proc |-> [c EXCEPT !.pc = "done",
                                 !.ret = Raise("FileNotFoundError", <<>>)]]

\* is_dir() of Path.mkdir after os.mkdir found the directory: FileExistsError
\* is raised when the directory is no longer there.
create_is_dir(f, c) ==
    IF DirExists(f, proc_file(c))
    THEN [c EXCEPT !.pc = "open"]
    ELSE [c EXCEPT !.pc = "done", !.ret = Raise("FileExistsError", <<>>)]

\* open() of skill_file.write_text(content) in turn c.k: the file is there
\* and empty; FileNotFoundError is raised when the directory is not there.
create_open(f, c) ==
    IF ~DirExists(f, proc_file(c))
    THEN [fs |-> f,
          proc |-> [c EXCEPT !.pc = "done", !.ret = Raise("FileNotFoundError", <<>>)]]
    ELSE [fs |-> WriteText(f, proc_file(c), Truncated),
          proc |-> [c EXCEPT !.pc = "write"]]

\* write() and close() of skill_file.write_text(content), and the end of turn
\* c.k; a file unlinked since it was opened takes the content with it.
create_write(f, c) ==
    [fs |-> IF FileExists(f, proc_file(c))
            THEN WriteText(f, proc_file(c),
                           build_skill_instructions_template(c.name, c.desc))
            ELSE f,
     proc |-> IF c.k = NumAgents
              THEN [c EXCEPT !.pc = "done", !.k = c.k + 1,
                             !.ret = Return(created_files(c.name, c.project_level))]
              ELSE [c EXCEPT !.pc = "mkdir", !.k = c.k + 1]]

\* delete_skill up to the resolver.
delete_start(skill_name, project_level) ==
    [pc |-> "exists", name |-> skill_name, project_level |-> project_level,
     files |-> <<>>, seen |-> [has_file |-> FALSE, extra |-> FALSE], k |-> 1,
     ret |-> Return(TRUE)]

\* A test of the resolver in delete_skill; after the last one SkillError is
\* raised when the mapping is empty, else the loop begins.
delete_exists(f, d) ==
    LET skill_files == resolve_step(f, d)
    IN  IF d.k < NumAgents
        THEN [d EXCEPT !.files = skill_files, !.k = d.k + 1]
        ELSE IF DOMAIN skill_files = {}
        THEN [d EXCEPT !.files = skill_files, !.pc = "done", !.k = 0,
                       !.ret = Raise("SkillError", <<>>)]
        ELSE [d EXCEPT !.files = skill_files, !.pc = "lstat", !.k = 1]

\* The SKILL.md path of turn d.k of delete_skill's loop.
delete_file(d) == d.files[Keys(d.files)[d.k]]

\* os.lstat, and then os.open, of shutil.rmtree(Path(skill_file).parent) in
\* turn d.k: FileNotFoundError is raised when the directory is not there.
delete_stat(f, d, next) ==
    IF ~DirExists(f, delete_file(d))
    THEN [d EXCEPT !.pc = "done", !.ret = Raise("FileNotFoundError", <<>>)]
    ELSE [d EXCEPT !.pc = next]

\* The entries rmtree has read and not yet removed: SKILL.md, and the other
\* files of the directory as one entry.
Pending(d) ==
    (IF d.seen.has_file THEN {"SKILL.md"} ELSE {})
        \cup (IF d.seen.extra THEN {"others"} ELSE {})

\* os.scandir of shutil.rmtree in turn d.k: the entries of the directory as
\* they are now.
delete_scandir(f, d) ==
    LET p == delete_file(d)
        entry == f[<<p.root, p.agent>>].dirs[p.dir]
        seen == [has_file |-> entry.has_file, extra |-> entry.extra]
    IN  [d EXCEPT !.seen = seen,
                  !.pc = IF seen.has_file \/ seen.extra THEN "unlink" ELSE "rmdir"]

\* os.unlink of one entry rmtree has read, in the order the directory gave
\* them: FileNotFoundError is raised when the entry is no longer there.
delete_unlink(f, d, e) ==
    LET p == delete_file(d)
        l == <<p.root, p.agent>>
        entry == f[l].dirs[p.dir]
        there == IF e = "SKILL.md" THEN entry.has_file ELSE entry.extra
        left == IF e = "SKILL.md" THEN [d.seen EXCEPT !.has_file = FALSE]
                ELSE [d.seen EXCEPT !.extra = FALSE]
    IN  IF ~there
        THEN [fs |-> f,
              proc |-> [d EXCEPT !.pc = "done",
                                 !.ret = Raise("FileNotFoundError", <<>>)]]
        ELSE [fs |-> IF e = "SKILL.md"
                     THEN UnlinkOnly(f, p)
                     ELSE [f EXCEPT ![l].dirs[p.dir].extra = FALSE],
              proc |-> [d EXCEPT !.seen = left,
                                 !.pc = IF left.has_file \/ left.extra
                                        THEN "unlink" ELSE "rmdir"]]

\* A turn's last step that removes the skill's directory of every registered
\* agent.
delete_rmdir_everywhere(f, d) ==
    [fs |-> [l \in Locs |->
                IF l[1] = BasePath(l[2], d.project_level)
                THEN [f[l] EXCEPT !.dirs[DirOf(d.name)] = NoEntry]
                ELSE f[l]],
     proc |-> IF d.k = Len(Keys(d.files))
              THEN [d EXCEPT !.pc = "done", !.k = d.k + 1]
              ELSE [d EXCEPT !.pc = "lstat", !.k = d.k + 1]]

\* shutil.rmtree of turn d.k, its os.rmdir, and the end of the turn: OSError
\* is raised when the directory is not empty.
delete_rmdir(f, d) ==
    LET p == delete_file(d)
        entry == f[<<p.root, p.agent>>].dirs[p.dir]
    IN  IF entry.has_file \/ entry.extra
        THEN [fs |-> f, proc |-> [d EXCEPT !.pc = "done", !.ret = Raise("OSError", <<>>)]]
        ELSE [fs |-> RmTree(f, p),
              proc |-> IF d.k = Len(Keys(d.files))
                       THEN [d EXCEPT !.pc = "done", !.k = d.k + 1]
                       ELSE [d EXCEPT !.pc = "lstat", !.k = d.k + 1]]

RaceCreateStart ==
    /\ procs.create.pc = "idle"
    /\ \E n \in Names, d \in Descs, pl \in BOOLEAN :
          procs' = [procs EXCEPT !.create = create_start(n, d, pl)]
    /\ UNCHANGED <<fs, before, op, ret, fault>>

RaceCreateExists ==
    /\ procs.create.pc = "exists"
    /\ procs' = [procs EXCEPT !.create = create_exists(fs, procs.create)]
    /\ UNCHANGED <<fs, before, op, ret, fault>>

RaceCreateMkdir ==
    /\ procs.create.pc = "mkdir"
    /\ LET r == create_mkdir(fs, procs.create)
       IN  /\ fs' = r.fs
           /\ procs' = [procs EXCEPT !.create = r.proc]
    /\ UNCHANGED <<before, op, ret, fault>>

RaceCreateMkdirSkills ==
    /\ procs.create.pc = "mkdir_skills"
    /\ \E agent_dir \in BOOLEAN :
          LET r == create_mkdir_skills(fs, procs.create, agent_dir)
          IN  /\ fs' = r.fs
              /\ procs' = [procs EXCEPT !.create = r.proc]
    /\ UNCHANGED <<before, op, ret, fault>>

RaceCreateMkdirAgent ==
    /\ procs.create.pc = "mkdir_agent"
    /\ procs' = [procs EXCEPT !.create = create_mkdir_agent(procs.create)]
    /\ UNCHANGED <<fs, before, op, ret, fault>>

RaceCreateMkdirSkillsAgain ==
    /\ procs.create.pc = "mkdir_skills_again"
    /\ LET r == create_mkdir_skills(fs, procs.create, TRUE)
       IN  /\ fs' = r.fs
           /\ procs' = [procs EXCEPT !.create = r.proc]
    /\ UNCHANGED <<before, op, ret, fault>>

RaceCreateMkdirAgain ==
    /\ procs.create.pc = "mkdir_again"
    /\ LET r == create_mkdir_again(fs, procs.create)
       IN  /\ fs' = r.fs
           /\ procs' = [procs EXCEPT !.create = r.proc]
    /\ UNCHANGED <<before, op, ret, fault>>

RaceCreateIsDir ==
    /\ procs.create.pc = "is_dir"
    /\ procs' = [procs EXCEPT !.create = create_is_dir(fs, procs.create)]
    /\ UNCHANGED <<fs, before, op, ret, fault>>

RaceCreateOpen ==
    /\ procs.create.pc = "open"
    /\ LET r == create_open(fs, procs.create)
       IN  /\ fs' = r.fs
           /\ procs' = [procs EXCEPT !.create = r.proc]
    /\ UNCHANGED <<before, op, ret, fault>>

RaceCreateWrite ==
    /\ procs.create.pc = "write"
    /\ LET r == create_write(fs, procs.create)
       IN  /\ fs' = r.fs
           /\ procs' = [procs EXCEPT !.create = r.proc]
    /\ UNCHANGED <<before, op, ret, fault>>

RaceDeleteStart ==
    /\ procs.delete.pc = "idle"
    /\ \E n \in Names, pl \in BOOLEAN :
          procs' = [procs EXCEPT !.delete = delete_start(n, pl)]
    /\ UNCHANGED <<fs, before, op, ret, fault>>

RaceDeleteExists ==
    /\ procs.delete.pc = "exists"
    /\ procs' = [procs EXCEPT !.delete = delete_exists(fs, procs.delete)]
    /\ UNCHANGED <<fs, before, op, ret, fault>>

RaceDeleteLstat ==
    /\ procs.delete.pc = "lstat"
    /\ procs' = [procs EXCEPT !.delete = delete_stat(fs, procs.delete, "opendir")]
    /\ UNCHANGED <<fs, before, op, ret, fault>>

RaceDeleteOpendir ==
    /\ procs.delete.pc = "opendir"
    /\ procs' = [procs EXCEPT !.delete = delete_stat(fs, procs.delete, "scandir")]
    /\ UNCHANGED <<fs, before, op, ret, fault>>

RaceDeleteScandir ==
    /\ procs.delete.pc = "scandir"
    /\ procs' = [procs EXCEPT !.delete = delete_scandir(fs, procs.delete)]
    /\ UNCHANGED <<fs, before, op, ret, fault>>

RaceDeleteUnlink ==
    /\ procs.delete.pc = "unlink"
    /\ \E e \in Pending(procs.delete) :
          LET r == delete_unlink(fs, procs.delete, e)
          IN  /\ fs' = r.fs
              /\ procs' = [procs EXCEPT !.delete = r.proc]
    /\ UNCHANGED <<before, op, ret, fault>>

RaceDeleteRmdir ==
    /\ procs.delete.pc = "rmdir"
    /\ LET r == delete_rmdir(fs, procs.delete)
       IN  /\ fs' = r.fs
           /\ procs' = [procs EXCEPT !.delete = r.proc]
    /\ UNCHANGED <<before, op, ret, fault>>

NextRace ==
    \/ RaceCreateStart \/ RaceCreateExists \/ RaceCreateMkdir
    \/ RaceCreateMkdirSkills \/ RaceCreateMkdirAgent
    \/ RaceCreateMkdirSkillsAgain \/ RaceCreateMkdirAgain
    \/ RaceCreateIsDir \/ RaceCreateOpen \/ RaceCreateWrite
    \/ RaceDeleteStart \/ RaceDeleteExists \/ RaceDeleteLstat
    \/ RaceDeleteOpendir \/ RaceDeleteScandir
    \/ RaceDeleteUnlink \/ RaceDeleteRmdir

SpecRace == Init /\ [][NextRace]_vars

----------------------------------------------------------------------------
(* Properties *)

\* The name resolves to an existing SKILL.md for at least one agent.
Resolves(f, name, project_level) ==
    DOMAIN check_if_skill_exist(f, name, project_level) # {}

\* The name passes the checks create_skill makes before it looks for the skill.
PassesCreateChecks(name) ==
    _validate_name(name) = <<>> /\ _validate_description(name) = <<>>

Mutating == {"create", "edit", "delete"}

\* C1 as stated: when the name resolves for some agent, create_skill (here
\* with a valid description) leaves the filesystem as it was and returns the
\* resolved mapping.
C1_ExistingReturnsMapping ==
    (op.kind = "create" /\ Resolves(before, op.name, op.project_level)
        /\ _validate_description(op.desc) = <<>>)
        => /\ fs = before
           /\ ret = Return(check_if_skill_exist(before, op.name, op.project_level))

\* C1, amended: when the name resolves for some agent, create_skill leaves the
\* filesystem as it was; it returns the resolved mapping when the name passes
\* validation and raises ValidationError when it does not.
C1_ExistingUntouched ==
    (op.kind = "create" /\ Resolves(before, op.name, op.project_level))
        => /\ fs = before
           /\ IF PassesCreateChecks(op.name)
              THEN ret = Return(check_if_skill_exist(before, op.name, op.project_level))
              ELSE ret.kind = "raise" /\ ret.exc = "ValidationError"

\* A create_skill returned the mapping of a skill that exists for one agent
\* only, with a description other than the one in the existing file.
C1_Witness ==
    /\ op.kind = "create"
    /\ ret.kind = "return"
    /\ _validate_description(op.desc) = <<>>
    /\ LET found == check_if_skill_exist(before, op.name, op.project_level)
       IN  /\ Cardinality(DOMAIN found) = 1
           /\ \A a \in DOMAIN found :
                 ReadText(fs, found[a])
                    # build_skill_instructions_template(op.name, op.desc)

\* C2 as stated: after a create_skill (here with a valid description) that
\* created the skill, the same call made again returns the same value.
C2_SecondCreateReturnsSame ==
    (op.kind = "create" /\ ret.kind = "return"
        /\ _validate_description(op.desc) = <<>>
        /\ ~Resolves(before, op.name, op.project_level))
        => create_skill(fs, op.name, op.desc, op.project_level).ret = ret

\* The skill's directory is in the list of every registered agent.
ListedForAll(listed, dir) ==
    /\ listed.kind = "return"
    /\ Len(listed.value) = NumAgents
    /\ \A i \in 1..NumAgents :
          /\ DOMAIN listed.value[i] = {AgentPool[i]}
          /\ dir \in listed.value[i][AgentPool[i]]

\* C3 as stated: after a create_skill with a valid name and description that
\* returned, list_skills of the same scope shows the skill's directory for
\* every registered agent.
C3_CreateThenListShows ==
    (op.kind = "create" /\ ret.kind = "return"
        /\ _validate_description(op.desc) = <<>>)
        => ListedForAll(list_skills(fs, op.project_level).ret, DirOf(op.name))

\* C4: create_skill with a name that fails name validation raises
\* ValidationError with the violations and leaves the filesystem as it was.
C4_InvalidNameRejected ==
    (op.kind = "create" /\ _validate_name(op.name) # <<>>)
        => /\ ret = Raise("ValidationError", _validate_name(op.name))
           /\ fs = before

\* A create_skill was refused for a name with a path separator that denotes
\* the directory of an existing skill.
C4_Witness ==
    /\ op.kind = "create"
    /\ _validate_name(op.name) # <<>>
    /\ Resolves(before, op.name, op.project_level)
    /\ ret.kind = "raise"

\* C5 as stated: edit_skill (here with a valid description) and delete_skill
\* with a name that resolves for no agent raise SkillError and leave the
\* filesystem as it was.
C5_AbsentRaisesSkillError ==
    (op.kind \in {"edit", "delete"} /\ ~Resolves(before, op.name, op.project_level)
        /\ (op.kind = "edit" => _validate_description(op.desc) = <<>>))
        => /\ ret = Raise("SkillError", <<>>)
           /\ fs = before

\* The lines of a content other than its description lines.
OtherLines(content) == SelectSeq(content, LAMBDA l : l.key # "description")

\* The texts of a content's description lines.
DescriptionTexts(content) ==
    {content[i].text : i \in {j \in 1..Len(content) : content[j].key = "description"}}

\* C6 as stated: after an edit_skill with a new (valid) description returned,
\* every agent's SKILL.md of the skill has the line "description: <new>", has
\* no description line with a previous text, and its other lines are the other
\* lines of the file the edit read.
C6_EditRewritesDescription ==
    (op.kind = "edit" /\ ret.kind = "return" /\ _validate_description(op.desc) = <<>>)
        => LET skill_files == check_if_skill_exist(before, op.name, op.project_level)
               source == ReadText(before, skill_files[Head(Keys(skill_files))])
           IN  \A a \in DOMAIN skill_files :
                  LET old == ReadText(before, skill_files[a])
                      new == ReadText(fs, skill_files[a])
                  IN  /\ \E i \in 1..Len(new) : new[i] = Line("description", op.desc)
                      /\ \A t \in DescriptionTexts(old) \ {op.desc} :
                            t \notin DescriptionTexts(new)
                      /\ OtherLines(new) = OtherLines(source)

\* C7 as stated: after a delete_skill that returned, list_skills of the same
\* scope shows the skill's directory for no agent.
C7_DeleteThenListHides ==
    (op.kind = "delete" /\ ret.kind = "return")
        => LET listed == list_skills(fs, op.project_level).ret
           IN  listed.kind = "return"
                  => \A i \in 1..Len(listed.value) :
                        \A a \in DOMAIN listed.value[i] :
                           DirOf(op.name) \notin listed.value[i][a]

\* C8 as stated: an operation that changed the filesystem was called with a
\* name that passes name validation.
C8_MutationOnlyUnderValidName ==
    (op.kind \in Mutating /\ fs # before) => _validate_name(op.name) = <<>>

\* C9 as stated: create_skill and edit_skill with a description that fails
\* description validation raise ValidationError and leave the filesystem as it
\* was.
C9_InvalidDescriptionRejected ==
    (op.kind \in {"create", "edit"} /\ _validate_description(op.desc) # <<>>)
        => /\ ret.kind = "raise"
           /\ ret.exc = "ValidationError"
           /\ fs = before

\* What list_skills is to return: one entry for each agent whose skills
\* directory exists, in registry order.
ListOfPresent(f, project_level) ==
    LET base_path == IF project_level THEN "cwd" ELSE "home"
        present == SelectSeq(load_supporting_agents,
                             LAMBDA a : f[<<base_path, a.skills_dir>>].exists)
    IN  [i \in 1..Len(present) |->
            present[i].name :> available_skills(f, base_path, present[i].skills_dir)]

\* C10 as stated: list_skills returns one entry for each agent whose skills
\* directory exists, in registry order, and skips the agents whose skills
\* directory does not exist.
C10_ListSkipsMissing ==
    op.kind = "list" => ret = Return(ListOfPresent(before, op.project_level))

\* C11 as stated: edit_skill (here with a valid description) creates and
\* removes no file or directory, and in every SKILL.md every line other than
\* the description lines is as it was before the edit.
C11_EditChangesOnlyDescription ==
    (op.kind = "edit" /\ _validate_description(op.desc) = <<>>)
        => \A l \in Locs :
              /\ fs[l].exists = before[l].exists
              /\ \A d \in DirNames :
                    /\ fs[l].dirs[d].exists = before[l].dirs[d].exists
                    /\ fs[l].dirs[d].has_file = before[l].dirs[d].has_file
                    /\ fs[l].dirs[d].extra = before[l].dirs[d].extra
                    /\ OtherLines(fs[l].dirs[d].file) = OtherLines(before[l].dirs[d].file)

\* The skill's SKILL.md exists for every registered agent in the scope.
ExistsForAll(f, name, project_level) ==
    DOMAIN check_if_skill_exist(f, name, project_level) = AgentSet

\* C12 as stated: after a create_skill (here with a valid description) that
\* returned, the skill's SKILL.md
\* exists for every registered agent in the scope.
C12_CreateCoversAllAgents ==
    (op.kind = "create" /\ ret.kind = "return"
        /\ _validate_description(op.desc) = <<>>)
        => ExistsForAll(fs, op.name, op.project_level)

\* C12, amended: after a create_skill that returned for a name that resolved
\* for no agent when it was called, the skill's SKILL.md exists for every
\* registered agent in the scope.
C12_FreshCreateCoversAllAgents ==
    (op.kind = "create" /\ ret.kind = "return"
        /\ ~Resolves(before, op.name, op.project_level))
        => ExistsForAll(fs, op.name, op.project_level)

\* A create_skill created the skill where some agent already had the skill's
\* directory, without SKILL.md.
C12_Witness ==
    /\ op.kind = "create"
    /\ ret.kind = "return"
    /\ ~Resolves(before, op.name, op.project_level)
    /\ \E a \in AgentSet :
          before[<<BasePath(a, op.project_level), a>>].dirs[DirOf(op.name)].exists
    /\ ExistsForAll(fs, op.name, op.project_level)

\* C13: after an edit_skill that returned, the SKILL.md of every agent in the
\* resolved mapping holds the edited content of the file of the mapping's
\* first agent.
C13_EditBroadcastsFirstFile ==
    (op.kind = "edit" /\ ret.kind = "return")
        => LET skill_files == check_if_skill_exist(before, op.name, op.project_level)
               source == ReadText(before, skill_files[Head(Keys(skill_files))])
           IN  \A a \in DOMAIN skill_files :
                  ReadText(fs, skill_files[a]) = re_sub_description(source, op.desc)

\* An edit_skill returned for a skill whose files differed between two agents,
\* neither of them holding the content the edit wrote.
C13_Witness ==
    /\ op.kind = "edit"
    /\ ret.kind = "return"
    /\ LET skill_files == check_if_skill_exist(before, op.name, op.project_level)
       IN  \E a, b \in DOMAIN skill_files :
              /\ ReadText(before, skill_files[a]) # ReadText(before, skill_files[b])
              /\ ReadText(fs, skill_files[a]) # ReadText(before, skill_files[a])
              /\ ReadText(fs, skill_files[b]) # ReadText(before, skill_files[b])
              /\ ReadText(fs, skill_files[a]) = ReadText(fs, skill_files[b])

\* C14 as stated: the content an edit_skill (here with a valid description)
\* wrote is the content it read with its first description line replaced by
\* "description: <new>" and every other line, later description lines
\* included, as it was; without a description line it is the content read.
C14_EditReplacesFirstDescriptionOnly ==
    (op.kind = "edit" /\ ret.kind = "return" /\ _validate_description(op.desc) = <<>>)
        => LET skill_files == check_if_skill_exist(before, op.name, op.project_level)
               first == skill_files[Head(Keys(skill_files))]
               source == ReadText(before, first)
               written == ReadText(fs, first)
               i == FirstDescriptionLine(source)
           IN  IF i = 0 THEN written = source
               ELSE /\ Len(written) = Len(source)
                    /\ written[i] = Line("description", op.desc)
                    /\ \A j \in (1..Len(source)) \ {i} : written[j] = source[j]

\* C15: after a delete_skill that returned, the skill's directory is gone,
\* with everything in it, for every agent the name resolved for, and every
\* other directory and file is as it was.
C15_DeleteRemovesResolvedOnly ==
    (op.kind = "delete" /\ ret.kind = "return")
        => LET skill_files == check_if_skill_exist(before, op.name, op.project_level)
           IN  \A l \in Locs :
                  /\ fs[l].exists = before[l].exists
                  /\ \A d \in DirNames :
                        IF d = DirOf(op.name)
                           /\ \E a \in DOMAIN skill_files : l = <<skill_files[a].root, a>>
                        THEN fs[l].dirs[d] = NoEntry
                        ELSE fs[l].dirs[d] = before[l].dirs[d]

\* A delete_skill returned for a skill that had other files beside SKILL.md
\* for some agent, while another skill of that agent stayed.
C15_Witness ==
    /\ op.kind = "delete"
    /\ ret.kind = "return"
    /\ LET skill_files == check_if_skill_exist(before, op.name, op.project_level)
       IN  \E a \in DOMAIN skill_files :
              LET l == <<skill_files[a].root, a>>
              IN  /\ before[l].dirs[DirOf(op.name)].extra
                  /\ fs[l].dirs[DirOf(op.name)] = NoEntry
                  /\ \E d \in DirNames : d # DirOf(op.name) /\ fs[l].dirs[d].has_file

\* C18: for every skill name in either scope, SKILL.md exists for every
\* registered agent or for none, and the agents' copies are identical.
C18_AllOrNoneAndIdentical ==
    \A d \in DirNames, pl \in BOOLEAN :
       LET skill_files == check_if_skill_exist(fs, d, pl)
       IN  /\ DOMAIN skill_files \in {{}, AgentSet}
           /\ \A a, b \in DOMAIN skill_files :
                 ReadText(fs, skill_files[a]) = ReadText(fs, skill_files[b])

\* An edit_skill rewrote a skill that exists for every agent in its scope and
\* for no agent in the other scope.
C18_Witness ==
    /\ op.kind = "edit"
    /\ ret.kind = "return"
    /\ fs # before
    /\ ExistsForAll(fs, op.name, op.project_level)
    /\ ~Resolves(fs, op.name, ~op.project_level)

\* The SKILL.md path of the last call's skill for an agent.
OpFile(a) == SkillFile(BasePath(a, op.project_level), a, DirOf(op.name))

\* The agents the last call's loop runs over, in its order: the registry for
\* create_skill, the resolved mapping for edit_skill and delete_skill.
LoopOrder ==
    IF op.kind = "create" THEN [i \in 1..NumAgents |-> AgentPool[i]]
    ELSE Keys(check_if_skill_exist(before, op.name, op.project_level))

\* C16: when a filesystem call raised for one agent in the loop of
\* create_skill, edit_skill or delete_skill, the call raised that error, the
\* agents before it in the loop have the operation's result, and everything
\* of the agents after it, and of every directory outside the loop, is as it
\* was before the call.
C16_FailureLeavesPrefix ==
    fault # NoFault
        => /\ ret.kind = "raise"
           /\ ret.exc = "OSError"
           /\ LET k == CHOOSE i \in 1..Len(LoopOrder) : LoopOrder[i] = fault.agent
                  first == OpFile(LoopOrder[1])
              IN  /\ \A i \in 1..(k - 1) :
                        LET p == OpFile(LoopOrder[i])
                        IN  CASE op.kind = "create" ->
                                   /\ FileExists(fs, p)
                                   /\ ReadText(fs, p) =
                                         build_skill_instructions_template(op.name, op.desc)
                              [] op.kind = "edit" ->
                                   /\ FileExists(fs, p)
                                   /\ ReadText(fs, p) =
                                         re_sub_description(ReadText(before, first), op.desc)
                              [] op.kind = "delete" ->
                                   fs[<<p.root, p.agent>>].dirs[p.dir] = NoEntry
                  /\ \A i \in (k + 1)..Len(LoopOrder) :
                        LET p == OpFile(LoopOrder[i])
                        IN  fs[<<p.root, p.agent>>] = before[<<p.root, p.agent>>]
                  /\ \A l \in Locs :
                        (\A i \in 1..Len(LoopOrder) :
                            l # <<OpFile(LoopOrder[i]).root, LoopOrder[i]>>)
                            => fs[l] = before[l]

\* A filesystem call raised for the second agent of a loop after the loop
\* had changed the first agent's directory.
C16_Witness ==
    /\ fault # NoFault
    /\ Len(LoopOrder) >= 2
    /\ fault.agent = LoopOrder[2]
    /\ LET p == OpFile(LoopOrder[1])
       IN  fs[<<p.root, p.agent>>] # before[<<p.root, p.agent>>]

\* Both processes have finished their calls.
RaceDone == procs.create.pc = "done" /\ procs.delete.pc = "done"

\* The two calls were for the same skill directory in the same scope, the
\* create_skill went through its whole loop and the delete_skill through its.
RacedOnOneSkill ==
    /\ RaceDone
    /\ DirOf(procs.create.name) = DirOf(procs.delete.name)
    /\ procs.create.project_level = procs.delete.project_level
    /\ procs.create.k = NumAgents + 1
    /\ procs.delete.k = Len(Keys(procs.delete.files)) + 1
    /\ procs.create.ret.kind = "return"
    /\ procs.delete.ret.kind = "return"

\* The agents for which the skill of the create_skill call exists.
RaceExistsFor ==
    {a \in AgentSet :
        FileExists(fs, SkillFile(BasePath(a, procs.create.project_level), a,
                                 DirOf(procs.create.name)))}

\* C17: when a create_skill and a delete_skill for the same name and scope
\* have both run to their end in two processes, the skill exists for every
\* registered agent or for the agents the delete_skill had not resolved,
\* those being the agents the create_skill had not yet written for.
C17_RaceLeavesUnresolvedAgents ==
    RacedOnOneSkill
        => RaceExistsFor \in {AgentSet, AgentSet \ DOMAIN procs.delete.files}

\* Both calls have finished without an error and the skill exists for some
\* registered agents and not for others.
C17_Witness ==
    /\ RacedOnOneSkill
    /\ procs.create.name = procs.delete.name
    /\ _validate_description(procs.create.desc) = <<>>
    /\ RaceExistsFor # {}
    /\ RaceExistsFor # AgentSet

====
